---------------------------- MODULE Spec2Model ----------------------------
(***************************************************************************)
(* A model of the threaded crawler: ThreadedFrontier (crawler/frontier.py), *)
(* ThreadedWorker (crawler/worker.py), Scraper (crawler/scraper.py) and the *)
(* Crawler driver (crawler/crawler.py).                                     *)
(*                                                                          *)
(* Every method of the frontier runs under frontier.lock, so one action is  *)
(* one critical section.  get_tbd_url is cut at cv.wait, where the lock is  *)
(* released.  The scraper is cut wherever it leaves Scraper.lock: its       *)
(* duplicate detectors read and write their sets without the lock.          *)
(* Time is counted in whole clock units.  Every time the program keeps (a    *)
(* next_time of the schedule, the timeout of a wait) is held as its distance *)
(* from the present, so time.time() reads 0 and Tick moves every kept time   *)
(* one unit closer; a time in the past is held as 0.                         *)
(***************************************************************************)
EXTENDS Integers, Sequences, FiniteSets, TLC

\* ------------------------------------------------------------------ bounds

\* config.time_delay, the politeness delay, in clock units
Delay == 2
\* number of processes (the first start and the restarts) in one behaviour
MaxRuns == 2
\* config.threads_count
NumWorkers == 2
\* timeout of cv.wait when the schedule is empty
WAIT_TIMEOUT == 1
\* fingerprint width of detect_near_similar
SIMHASH_BITS == 64
\* detect_low_info: fewer words than this on a page over 1 MiB is low information
LOW_INFO_WORDS == 200

Workers == 1..NumWorkers
\* Link.score, which add_url takes from its caller
Scores == {0, 1}

\* ------------------------------------------------------------- URL strings
\* A URL string is a record of its parts.  A host is the sequence of the
\* pieces of its name, so that str.endswith is the suffix relation on
\* sequences: "www.informatics.uci.edu" is <<"www", ".", "informat", "ics",
\* ".uci.edu">>.  `pslash` says that the path ends with "/", `upper` that
\* the string holds upper-case letters, `frag` is the fragment.

ICS == <<"www", ".", "ics", ".uci.edu">>
STAT == <<"www", ".", "stat", ".uci.edu">>

Hosts == {ICS, STAT}

Str(host, path, pslash, query) ==
    [scheme |-> "https", host |-> host, path |-> path, pslash |-> pslash,
     query |-> query, frag |-> "", upper |-> FALSE]

U_root == Str(ICS, "", FALSE, "")
U_rootSlash == Str(ICS, "", TRUE, "")
U_a == Str(ICS, "/a", FALSE, "q=1")
U_aSlash == Str(ICS, "/a", TRUE, "q=1")
U_stat == Str(STAT, "", FALSE, "")
U_calendar == Str(ICS, "/calendar", FALSE, "")
U_pdfSlash == Str(ICS, "/f.pdf", TRUE, "")
U_statA == Str(STAT, "/a", FALSE, "")

\* config.seed_urls
Seeds == <<U_root, U_stat>>

\* the hrefs found on pages, as Link(URL(total_href)).url.url gives them:
\* in lower case and without fragment
Hrefs == {U_rootSlash, U_a, U_aSlash, U_calendar, U_pdfSlash, U_statA}

EndsWith(s, t) ==
    /\ Len(t) <= Len(s)
    /\ SubSeq(s, Len(s) - Len(t) + 1, Len(s)) = t

RemovePrefixWww(d) ==
    IF Len(d) >= 2 /\ d[1] = "www" /\ d[2] = "." THEN SubSeq(d, 3, Len(d)) ELSE d

\* utils.normalize: a trailing "/" of the URL string is stripped
normalize(url) ==
    IF url.query = "" /\ url.frag = "" THEN [url EXCEPT !.pslash = FALSE] ELSE url

\* utils.get_urlhash: a digest of the URL string, taken to be injective
get_urlhash(url) == <<url.host, url.path, url.pslash, url.query, url.frag, url.upper>>

\* ------------------------------------------------------------- class URL

Lower(url) == [url EXCEPT !.upper = FALSE]

valid_scheme(url) == url.scheme \in {"http", "https"}

\* a page that keeps the trailing "/" of the path
get_pageKeepSlash(url) ==
    IF ~valid_scheme(url) THEN <<>>
    ELSE <<url.scheme, url.host, url.path, url.pslash, url.query>>

\* URL.__get_page: scheme://netloc + path without one trailing "/" + ?query
get_page(url) ==
    IF ~valid_scheme(url) THEN <<>>
    ELSE <<url.scheme, url.host, url.path, url.query>>

\* URL(url).page; URL.__eq__ and URL.__hash__ compare it
Page(url) == get_page(Lower(url))

\* the URLs the frontier can hold
CrawlUrls == {normalize(u) : u \in Hrefs \cup {Seeds[i] : i \in DOMAIN Seeds}}

\* URL strings in every spelling: either scheme, with and without upper-case
\* letters, a trailing "/", a query and a fragment
UrlStrings ==
    [scheme : {"http", "https"}, host : Hosts, path : {"/a"}, pslash : BOOLEAN,
     query : {"", "q=1", "q=2"}, frag : {"", "frag"}, upper : BOOLEAN]

\* the pages these URLs name
Pages == {Page(u) : u \in CrawlUrls \cup UrlStrings}

\* A web gives the anchors of each URL's page.  extract_next_links collects
\* them in a set of Link, which compare by page, so a web holds no two hrefs
\* of one page on one page.
Links ==
    [u \in CrawlUrls |->
        IF u = U_root THEN {U_a, U_calendar}
        ELSE IF u = U_stat THEN {U_aSlash, U_rootSlash}
        ELSE {U_rootSlash}]

\* the web where every page links to U_a
LinksToA == [u \in CrawlUrls |-> {U_a}]

\* the web where every page links to U_pdfSlash
LinksToPdf == [u \in CrawlUrls |-> {U_pdfSlash}]

\* the web where the ics seed links to two ics pages and one of them links
\* to a stat page
LinksAcross ==
    [u \in CrawlUrls |->
        IF u = U_root THEN {U_a, U_pdfSlash}
        ELSE IF u = U_a THEN {U_statA}
        ELSE {}]

LinksOf(L, url) == IF url \in DOMAIN L THEN L[url] ELSE {}

\* ----------------------------------------------------------- Scraper, pure

detect_trap(url) == url.path \in {"/calendar", "/events"}

AllowedDomains == {<<"ics", ".uci.edu">>, <<"cs", ".uci.edu">>,
                   <<"informat", "ics", ".uci.edu">>, <<"stat", ".uci.edu">>}

\* misc.BAD_EXT_REGEX.search(url.url): the URL string ends with a blocked
\* file extension
BAD_EXT_REGEX(url) ==
    url.query = "" /\ url.frag = "" /\ ~url.pslash /\ url.path \in {"/f.pdf"}

is_valid(url) ==
    /\ valid_scheme(Lower(url))
    /\ ~detect_trap(Lower(url))
    /\ \E d \in AllowedDomains : EndsWith(url.host, <<".">> \o d) \/ url.host = d
    /\ ~BAD_EXT_REGEX(Lower(url))


\* ------------------------------------------------------------------- state

VARIABLES
    \* on disk: the shelve file of the frontier and raw_stats.pkl
    save, raw_stats,
    \* how many processes have been started
    run,
    \* ThreadedFrontier
    domain_queues, domain_heap, domains_in_heap, entry_count,
    total_count, completed_count, active_workers,
    \* ThreadedWorker w: where its thread is, the URL it holds, the response
    \* it downloaded, the time from which its cv.wait may return, its
    \* `active` flag
    pc, tbd_url, resp, wait_until, active,
    \* Scraper
    seen_urls, seen_exact_content_hashes, seen_near_content_hashes,
    word_freq, subdomain_freq, longest_url, highest_word_count,
    \* Crawler.start on the main thread
    mainpc, join_idx,
    \* history: the URLs get_tbd_url returned in this process, the time since
    \* the last dispatch of each bucket (Delay stands for Delay or more), the
    \* <<url, score, sequence number>> of every record add_url wrote to the
    \* store since it was last emptied, the number of scrape calls on each
    \* page that passed the seen-page check, and the <<page, words>> that
    \* reached update_analytics
    dispatched, last_dispatch, enqueued, passed_seen, accepted

diskVars == <<save, raw_stats>>
frontierVars == <<domain_queues, domain_heap, domains_in_heap, entry_count,
                  total_count, completed_count, active_workers>>
workerVars == <<pc, tbd_url, resp, wait_until, active>>
scraperVars == <<seen_urls, seen_exact_content_hashes, seen_near_content_hashes,
                 word_freq, subdomain_freq, longest_url, highest_word_count>>
mainVars == <<mainpc, join_idx>>
historyVars == <<dispatched, last_dispatch, enqueued, passed_seen, accepted>>

vars == <<diskVars, run, frontierVars, workerVars, scraperVars, mainVars,
          historyVars>>

NoUrl == <<>>
NoResp == <<>>
NoFile == <<>>
Never == 0 - 1

\* time.time(): the present
now == 0

\* ------------------------------------------------------- ThreadedFrontier
\* The methods are operators on the record f of the frontier's fields; the
\* actions below apply them to the variables.

Frontier ==
    [save |-> save, domain_queues |-> domain_queues, domain_heap |-> domain_heap,
     domains_in_heap |-> domains_in_heap, entry_count |-> entry_count,
     total_count |-> total_count, completed_count |-> completed_count,
     active_workers |-> active_workers]

EmptyFrontier(store) ==
    [save |-> store, domain_queues |-> [d \in Hosts |-> {}], domain_heap |-> {},
     domains_in_heap |-> {}, entry_count |-> 0, total_count |-> 0,
     completed_count |-> 0, active_workers |-> 0]

RECURSIVE MatchSeed(_, _)
MatchSeed(subdomain, i) ==
    IF i > Len(Seeds) THEN subdomain
    ELSE LET valid_domain == Seeds[i].host IN
         IF \/ subdomain = valid_domain
            \/ EndsWith(subdomain, <<".">> \o valid_domain)
            \/ EndsWith(subdomain, RemovePrefixWww(valid_domain))
         THEN valid_domain
         ELSE MatchSeed(subdomain, i + 1)

_get_domain(url) == MatchSeed(url.host, 1)

\* the loop of _get_domain for any list valid_domains of seed hosts
RECURSIVE MatchSeedIn(_, _, _)
MatchSeedIn(valid_domains, subdomain, i) ==
    IF i > Len(valid_domains) THEN subdomain
    ELSE LET valid_domain == valid_domains[i] IN
         IF \/ subdomain = valid_domain
            \/ EndsWith(subdomain, <<".">> \o valid_domain)
            \/ EndsWith(subdomain, RemovePrefixWww(valid_domain))
         THEN valid_domain
         ELSE MatchSeedIn(valid_domains, subdomain, i + 1)

\* hosts that seeds can name, and the lists of two of them
INF == <<"www", ".", "informat", "ics", ".uci.edu">>
SeedHosts == {ICS, STAT, INF}
SeedLists == {<<a, b>> : a, b \in SeedHosts} \ {<<a, a>> : a \in SeedHosts}

\* hosts of URLs: the seed hosts, ics.uci.edu, informatics.uci.edu, a
\* subdomain of ics.uci.edu, a subdomain of www.ics.uci.edu and a host of
\* another site
HostNames ==
    SeedHosts \cup {<<"ics", ".uci.edu">>, <<"informat", "ics", ".uci.edu">>,
                    <<"vision", ".", "ics", ".uci.edu">>,
                    <<"a", ".", "www", ".", "ics", ".uci.edu">>,
                    <<"www", ".", "other", ".com">>}

\* a queue key that orders by ascending score
QueueKeyAscending(score, count, url) == <<score, count, url>>

\* the key heapq orders a domain queue by
QueueKey(score, count, url) == <<0 - score, count, url>>

\* _add_to_memory scheduling the domain at every call
_add_to_memoryAlways(f, url, count, score, t) ==
    LET domain == _get_domain(url) IN
    [f EXCEPT
       !.domain_queues[domain] = @ \cup {QueueKey(score, count, url)},
       !.domain_heap = @ \cup {<<t, domain>>},
       !.domains_in_heap = @ \cup {domain}]

_add_to_memory(f, url, count, score, t) ==
    LET domain == _get_domain(url) IN
    [f EXCEPT
       !.domain_queues[domain] = @ \cup {QueueKey(score, count, url)},
       !.domain_heap = IF domain \in f.domains_in_heap THEN @ ELSE @ \cup {<<t, domain>>},
       !.domains_in_heap = @ \cup {domain}]

\* add_url without its test of the store
add_urlUnchecked(f, raw, score, t) ==
    LET url == normalize(raw)
        urlhash == get_urlhash(url)
        count == f.entry_count + 1
        g == [f EXCEPT !.entry_count = count,
                       !.total_count = @ + 1,
                       !.save = (urlhash :> <<url, FALSE, score, count>>) @@ @]
    IN  _add_to_memory(g, url, count, score, t)

add_url(f, raw, score, t) ==
    LET url == normalize(raw)
        urlhash == get_urlhash(url)
    IN  IF urlhash \in DOMAIN f.save THEN f
        ELSE LET count == f.entry_count + 1
                 g == [f EXCEPT !.entry_count = count,
                                !.total_count = @ + 1,
                                !.save = (urlhash :> <<url, FALSE, score, count>>) @@ @]
             IN  _add_to_memory(g, url, count, score, t)

\* mark_url_complete that writes the completed record of any URL, known or not
mark_url_completeAlways(f, url) ==
    [f EXCEPT !.completed_count = @ + 1,
              !.active_workers = @ - 1,
              !.save = (get_urlhash(url) :> <<url, TRUE>>) @@ @]

mark_url_complete(f, url) ==
    LET urlhash == get_urlhash(url)
        g == [f EXCEPT !.completed_count = @ + 1, !.active_workers = @ - 1]
    IN  IF urlhash \notin DOMAIN f.save THEN g
        ELSE [g EXCEPT !.save = (urlhash :> <<url, TRUE>>) @@ @]

Max(a, b) == IF a >= b THEN a ELSE b

\* a replay that puts every record of the store back into the queues
RECURSIVE ReplayEvery(_, _, _)
ReplayEvery(r, keys, t) ==
    IF keys = {} THEN r
    ELSE LET urlhash == CHOOSE k \in keys : TRUE
             data == r[1].save[urlhash]
             next == <<_add_to_memory(r[1], data[1], 0, 0, t), r[2] + 1, r[3]>>
         IN  ReplayEvery(next, keys \ {urlhash}, t)

\* a replay that puts back every record that is not complete, valid or not
RECURSIVE ReplayAnyIncomplete(_, _, _)
ReplayAnyIncomplete(r, keys, t) ==
    IF keys = {} THEN r
    ELSE LET urlhash == CHOOSE k \in keys : TRUE
             data == r[1].save[urlhash]
             next == IF Len(data) = 2 THEN r
                     ELSE IF ~data[2]
                          THEN <<_add_to_memory(r[1], data[1], data[4], data[3], t),
                                 r[2] + 1, Max(r[3], data[4])>>
                          ELSE r
         IN  ReplayAnyIncomplete(next, keys \ {urlhash}, t)

\* the loop of _parse_save_file over save.items(); r is <<f, tbd_count,
\* max_entry_count>>
RECURSIVE ReplayItems(_, _, _)
ReplayItems(r, keys, t) ==
    IF keys = {} THEN r
    ELSE LET urlhash == CHOOSE k \in keys : TRUE
             data == r[1].save[urlhash]
             next == IF Len(data) = 2 THEN r
                     ELSE IF ~data[2] /\ is_valid(data[1])
                          THEN <<_add_to_memory(r[1], data[1], data[4], data[3], t),
                                 r[2] + 1, Max(r[3], data[4])>>
                          ELSE r
         IN  ReplayItems(next, keys \ {urlhash}, t)

\* a replay that counts every record of the store as completed
_parse_save_fileAllCompleted(f, t) ==
    LET r == ReplayItems(<<f, 0, 0>>, DOMAIN f.save, t)
        size == Cardinality(DOMAIN f.save)
    IN  [r[1] EXCEPT !.entry_count = r[3],
                     !.total_count = size,
                     !.completed_count = size]

_parse_save_file(f, t) ==
    LET r == ReplayItems(<<f, 0, 0>>, DOMAIN f.save, t)
        size == Cardinality(DOMAIN f.save)
    IN  [r[1] EXCEPT !.entry_count = r[3],
                     !.total_count = size,
                     !.completed_count = size - r[2]]

RECURSIVE AddSeeds(_, _, _)
AddSeeds(f, i, t) ==
    IF i > Len(Seeds) THEN f ELSE AddSeeds(add_url(f, Seeds[i], 0, t), i + 1, t)

EmptyStore == [k \in {} |-> <<>>]

\* a start that deletes the store whether or not the restart flag is given
_init_frontierClean(restart, store, t) ==
    AddSeeds(EmptyFrontier(EmptyStore), 1, t)

\* ThreadedFrontier.__init__ on the store found on disk
_init_frontier(restart, store, t) ==
    IF restart THEN AddSeeds(EmptyFrontier(EmptyStore), 1, t)
    ELSE IF DOMAIN store # {} THEN _parse_save_file(EmptyFrontier(store), t)
    ELSE AddSeeds(EmptyFrontier(store), 1, t)


\* heapq.heappop of a domain queue: the least key (-score, count, url)
QueueMin(queue) ==
    {e \in queue : \A o \in queue :
        \/ e[1] < o[1]
        \/ e[1] = o[1] /\ e[2] <= o[2]}

\* domain_heap[0]: the entry with the least next_time.  Entries that are due,
\* or that were pushed within one clock unit, compare by times the model
\* does not keep, so any of them may be first.
HeapTop(heap) == {e \in heap : \A o \in heap : e[1] <= o[1]}

\* a dispatch that does not count the checkout
DispatchUncounted(f, top, entry, t) ==
    LET next_time == top[1]
        domain == top[2]
        rest == f.domain_queues[domain] \ {entry}
        g == [f EXCEPT
                !.domain_queues[domain] = rest,
                !.domain_heap = IF rest # {}
                                THEN (@ \ {top}) \cup {<<t + Delay, domain>>}
                                ELSE @ \ {top},
                !.domains_in_heap = IF rest # {} THEN @ ELSE @ \ {domain}]
    IN  [f |-> g, url |-> entry[3], raised |-> t - (next_time - Delay) < Delay]

\* a dispatch that puts the domain back into the schedule at the present time
DispatchNow(f, top, entry, t) ==
    LET domain == top[2]
        rest == f.domain_queues[domain] \ {entry}
        g == [f EXCEPT
                !.domain_queues[domain] = rest,
                !.domain_heap = IF rest # {}
                                THEN (@ \ {top}) \cup {<<t, domain>>}
                                ELSE @ \ {top},
                !.domains_in_heap = IF rest # {} THEN @ ELSE @ \ {domain},
                !.active_workers = @ + 1]
    IN  [f |-> g, url |-> entry[3], raised |-> FALSE]

\* get_tbd_url, lines 116-130: `top` is popped from the schedule and `entry`
\* from the queue of its domain at time t.  The result holds the frontier, the
\* URL, and whether the politeness check raised ValueError.
Dispatch(f, top, entry, t) ==
    LET next_time == top[1]
        domain == top[2]
        rest == f.domain_queues[domain] \ {entry}
        new_next_time == t + Delay
        time_since_last == t - (next_time - Delay)
        g == [f EXCEPT
                !.domain_queues[domain] = rest,
                !.domain_heap = IF rest # {}
                                THEN (@ \ {top}) \cup {<<new_next_time, domain>>}
                                ELSE @ \ {top},
                !.domains_in_heap = IF rest # {} THEN @ ELSE @ \ {domain},
                !.active_workers = @ + 1]
    IN  [f |-> g, url |-> entry[3], raised |-> time_since_last < Delay]

\* get_tbd_url, lines 131-134: the scheduled domain has no queue
DropStale(f, top) ==
    [f EXCEPT !.domain_heap = @ \ {top},
              !.domains_in_heap = @ \ {top[2]}]

\* the end test without its look at active_workers
IsDoneScheduleEmpty(f) == f.domain_heap = {}

\* get_tbd_url, line 140: the crawl is over
IsDone(f) == f.domain_heap = {} /\ f.active_workers = 0

\* ------------------------------------------------------------ page content
\* A token is a sequence of characters and a page's words a sequence of
\* tokens.  The body of a response is classed by its length: "empty", "small"
\* (up to 1 MiB), "mid" (over 1 MiB) and "huge" (over 5 MiB).

TokA == <<"a">>
TokB == <<"b">>
TokAB == <<"a", "b">>
TokC == <<"c">>
TokD == <<"d">>
Tokens == {TokA, TokB, TokAB, TokC, TokD}

Contents == {<<>>, <<TokA, TokB>>, <<TokAB>>}

\* word lists whose fingerprints are 1, 2, 3 and 4 bits apart
NearContents == {<<TokA, TokB>>, <<TokAB>>, <<TokC>>, <<TokD>>}

Fault == [status |-> 404, size |-> "none", words |-> <<>>]

Responses ==
    {Fault, [status |-> 200, size |-> "huge", words |-> <<>>],
            [status |-> 200, size |-> "empty", words |-> <<>>]}
    \cup {[status |-> 200, size |-> z, words |-> ws] :
            z \in {"small", "mid"}, ws \in Contents}

\* "".join(words)
RECURSIVE JoinWords(_)
JoinWords(words) ==
    IF words = <<>> THEN <<>> ELSE Head(words) \o JoinWords(Tail(words))

\* hashlib.sha1(...).hexdigest(), taken to be injective
ContentHash(words) == JoinWords(words)

Bits == 0..(SIMHASH_BITS - 1)

\* the bits i with (hash_u >> i) & 1 for the SHA-1 value hash_u of a token
TokenBits(token) ==
    IF token = TokA THEN {i \in Bits : i % 2 = 0}
    ELSE IF token = TokB THEN {i \in Bits : i % 3 = 0}
    ELSE IF token = TokAB THEN {i \in Bits : i % 6 = 0} \ {0, 6}
    ELSE IF token = TokC THEN {i \in Bits : i % 6 = 0} \ {0, 6, 12}
    ELSE {i \in Bits : i % 6 = 0} \ {0, 6, 12, 18}

\* freqs[token]
Freq(words, token) == Cardinality({k \in 1..Len(words) : words[k] = token})

RECURSIVE SumSet(_, _, _)
SumSet(S, words, i) ==
    IF S = {} THEN 0
    ELSE LET token == CHOOSE x \in S : TRUE
             weight == Freq(words, token)
         IN  (IF i \in TokenBits(token) THEN weight ELSE 0 - weight)
             + SumSet(S \ {token}, words, i)

\* v[i] after the loop over freqs.items()
V(words, i) == SumSet({words[k] : k \in 1..Len(words)}, words, i)

\* the fingerprint, as the set of its one bits
Simhash(words) == {i \in Bits : V(words, i) > 0}

Hamming(x, y) == Cardinality((x \ y) \cup (y \ x))

\* similarity >= 0.95, with similarity = 1 - hamming / 64
Similar(x, y) == (SIMHASH_BITS - Hamming(x, y)) * 100 >= 95 * SIMHASH_BITS

\* a size check that turns nothing down
detect_largeNever(r) == FALSE

detect_large(r) == r.size = "huge"

detect_low_info(r, word_count) ==
    \/ r.size \in {"none", "empty"}
    \/ r.size \in {"mid", "huge"} /\ word_count < LOW_INFO_WORDS


\* ------------------------------------------------------------ process start

SetFrontier(f) ==
    /\ save' = f.save
    /\ domain_queues' = f.domain_queues
    /\ domain_heap' = f.domain_heap
    /\ domains_in_heap' = f.domains_in_heap
    /\ entry_count' = f.entry_count
    /\ total_count' = f.total_count
    /\ completed_count' = f.completed_count
    /\ active_workers' = f.active_workers

\* Scraper.__init__ followed by load_state: raw_stats.pkl, when it exists,
\* replaces the empty sets
ScraperState(file) ==
    IF file = NoFile
    THEN [seen_urls |-> {}, seen_exact_content_hashes |-> {},
          seen_near_content_hashes |-> {},
          word_freq |-> [t \in Tokens |-> 0],
          subdomain_freq |-> [h \in Hosts |-> 0],
          longest_url |-> NoUrl, highest_word_count |-> 0]
    ELSE file

\* Crawler.__init__ builds the scraper with scraper_factory(), so restart is
\* False in Scraper.__init__ and the state is loaded, whatever the restart
\* flag of the process
scraper_factory(restart, file) == ScraperState(file)

SetScraper(st) ==
    /\ seen_urls' = st.seen_urls
    /\ seen_exact_content_hashes' = st.seen_exact_content_hashes
    /\ seen_near_content_hashes' = st.seen_near_content_hashes
    /\ word_freq' = st.word_freq
    /\ subdomain_freq' = st.subdomain_freq
    /\ longest_url' = st.longest_url
    /\ highest_word_count' = st.highest_word_count

\* <<url, score, sequence number>> of the records of a store that hold them
Assigned(store) ==
    {<<store[h][1], store[h][3], store[h][4]>> :
        h \in {k \in DOMAIN store : Len(store[k]) = 4}}

\* launch.main: no save file and no raw_stats.pkl exist yet
Init ==
    LET f == _init_frontier(FALSE, EmptyStore, now)
        st == ScraperState(NoFile)
    IN  /\ save = f.save
        /\ raw_stats = NoFile
        /\ run = 1
        /\ domain_queues = f.domain_queues
        /\ domain_heap = f.domain_heap
        /\ domains_in_heap = f.domains_in_heap
        /\ entry_count = f.entry_count
        /\ total_count = f.total_count
        /\ completed_count = f.completed_count
        /\ active_workers = f.active_workers
        /\ pc = [w \in Workers |-> "loop"]
        /\ tbd_url = [w \in Workers |-> NoUrl]
        /\ resp = [w \in Workers |-> NoResp]
        /\ wait_until = [w \in Workers |-> 0]
        /\ active = [w \in Workers |-> TRUE]
        /\ seen_urls = st.seen_urls
        /\ seen_exact_content_hashes = st.seen_exact_content_hashes
        /\ seen_near_content_hashes = st.seen_near_content_hashes
        /\ word_freq = st.word_freq
        /\ subdomain_freq = st.subdomain_freq
        /\ longest_url = st.longest_url
        /\ highest_word_count = st.highest_word_count
        /\ mainpc = "view"
        /\ join_idx = 1
        /\ dispatched = {}
        /\ last_dispatch = [d \in Hosts |-> Never]
        /\ enqueued = Assigned(f.save)
        /\ passed_seen = [p \in Pages |-> 0]
        /\ accepted = {}

\* Scraper.extract_next_links is called by two workers on any two URL
\* strings, on a new scraper
InitUrl ==
    LET f == EmptyFrontier(EmptyStore)
        st == ScraperState(NoFile)
    IN  /\ save = f.save
        /\ raw_stats = NoFile
        /\ run = 1
        /\ domain_queues = f.domain_queues
        /\ domain_heap = f.domain_heap
        /\ domains_in_heap = f.domains_in_heap
        /\ entry_count = f.entry_count
        /\ total_count = f.total_count
        /\ completed_count = f.completed_count
        /\ active_workers = NumWorkers
        /\ pc = [w \in Workers |-> "fetch"]
        /\ tbd_url \in [Workers -> UrlStrings]
        /\ resp = [w \in Workers |-> NoResp]
        /\ wait_until = [w \in Workers |-> 0]
        /\ active = [w \in Workers |-> TRUE]
        /\ seen_urls = st.seen_urls
        /\ seen_exact_content_hashes = st.seen_exact_content_hashes
        /\ seen_near_content_hashes = st.seen_near_content_hashes
        /\ word_freq = st.word_freq
        /\ subdomain_freq = st.subdomain_freq
        /\ longest_url = st.longest_url
        /\ highest_word_count = st.highest_word_count
        /\ mainpc = "view"
        /\ join_idx = 1
        /\ dispatched = {}
        /\ last_dispatch = [d \in Hosts |-> Never]
        /\ enqueued = {}
        /\ passed_seen = [p \in Pages |-> 0]
        /\ accepted = {}

\* two workers hold URLs of any two hosts; the frontier holds nothing yet
InitDomain ==
    LET f == EmptyFrontier(EmptyStore)
        st == ScraperState(NoFile)
    IN  /\ save = f.save
        /\ raw_stats = NoFile
        /\ run = 1
        /\ domain_queues = f.domain_queues
        /\ domain_heap = f.domain_heap
        /\ domains_in_heap = f.domains_in_heap
        /\ entry_count = f.entry_count
        /\ total_count = f.total_count
        /\ completed_count = f.completed_count
        /\ active_workers = NumWorkers
        /\ pc = [w \in Workers |-> "fetch"]
        /\ tbd_url \in [Workers -> {Str(h, "", FALSE, "") : h \in HostNames}]
        /\ resp = [w \in Workers |-> NoResp]
        /\ wait_until = [w \in Workers |-> 0]
        /\ active = [w \in Workers |-> TRUE]
        /\ seen_urls = st.seen_urls
        /\ seen_exact_content_hashes = st.seen_exact_content_hashes
        /\ seen_near_content_hashes = st.seen_near_content_hashes
        /\ word_freq = st.word_freq
        /\ subdomain_freq = st.subdomain_freq
        /\ longest_url = st.longest_url
        /\ highest_word_count = st.highest_word_count
        /\ mainpc = "view"
        /\ join_idx = 1
        /\ dispatched = {}
        /\ last_dispatch = [d \in Hosts |-> Never]
        /\ enqueued = {}
        /\ passed_seen = [p \in Pages |-> 0]
        /\ accepted = {}

\* the URLs and the responses of the pages handed to extract_next_links in
\* SpecPage: a trap URL among them, a response without raw_response, a fault
\* with a body and a body over 5 MiB with words
PageUrls == {U_root, U_a, U_calendar}

PageResponses ==
    Responses \cup {[status |-> 200, size |-> "none", words |-> <<>>],
                    [status |-> 404, size |-> "small", words |-> <<TokA, TokB>>],
                    [status |-> 200, size |-> "huge", words |-> <<TokA, TokB>>]}

\* two workers hold the responses of any two pages and are about to call
\* scraper.scrape on a new scraper
InitPage ==
    LET f == EmptyFrontier(EmptyStore)
        st == ScraperState(NoFile)
    IN  /\ save = f.save
        /\ raw_stats = NoFile
        /\ run = 1
        /\ domain_queues = f.domain_queues
        /\ domain_heap = f.domain_heap
        /\ domains_in_heap = f.domains_in_heap
        /\ entry_count = f.entry_count
        /\ total_count = f.total_count
        /\ completed_count = f.completed_count
        /\ active_workers = NumWorkers
        /\ pc = [w \in Workers |-> "fetch"]
        /\ tbd_url \in [Workers -> PageUrls]
        /\ resp \in [Workers -> PageResponses]
        /\ wait_until = [w \in Workers |-> 0]
        /\ active = [w \in Workers |-> TRUE]
        /\ seen_urls = st.seen_urls
        /\ seen_exact_content_hashes = st.seen_exact_content_hashes
        /\ seen_near_content_hashes = st.seen_near_content_hashes
        /\ word_freq = st.word_freq
        /\ subdomain_freq = st.subdomain_freq
        /\ longest_url = st.longest_url
        /\ highest_word_count = st.highest_word_count
        /\ mainpc = "view"
        /\ join_idx = 1
        /\ dispatched = {}
        /\ last_dispatch = [d \in Hosts |-> Never]
        /\ enqueued = {}
        /\ passed_seen = [p \in Pages |-> 0]
        /\ accepted = {}

\* Two workers have reached detect_near_similar, each with the page of one
\* seed and any of the word lists of NearContents
InitNear ==
    LET f == _init_frontier(FALSE, EmptyStore, now)
        st == ScraperState(NoFile)
    IN  /\ save = f.save
        /\ raw_stats = NoFile
        /\ run = 1
        /\ domain_queues = [d \in Hosts |-> {}]
        /\ domain_heap = {}
        /\ domains_in_heap = {}
        /\ entry_count = f.entry_count
        /\ total_count = f.total_count
        /\ completed_count = f.completed_count
        /\ active_workers = NumWorkers
        /\ pc = [w \in Workers |-> "near"]
        /\ tbd_url = [w \in Workers |-> Seeds[w]]
        /\ resp \in [Workers -> {[status |-> 200, size |-> "small", words |-> ws] :
                                    ws \in NearContents}]
        /\ wait_until = [w \in Workers |-> 0]
        /\ active = [w \in Workers |-> TRUE]
        /\ seen_urls = {Page(Seeds[w]) : w \in Workers}
        /\ seen_exact_content_hashes = {ContentHash(resp[w].words) : w \in Workers}
        /\ seen_near_content_hashes = st.seen_near_content_hashes
        /\ word_freq = st.word_freq
        /\ subdomain_freq = st.subdomain_freq
        /\ longest_url = st.longest_url
        /\ highest_word_count = st.highest_word_count
        /\ mainpc = "view"
        /\ join_idx = 1
        /\ dispatched = {Seeds[w] : w \in Workers}
        /\ last_dispatch = [d \in Hosts |-> now]
        /\ enqueued = Assigned(f.save)
        /\ passed_seen = [p \in Pages |->
                             IF p \in {Page(Seeds[w]) : w \in Workers} THEN 1 ELSE 0]
        /\ accepted = {}

\* The process ends (it finished, or it was killed at any point) and
\* launch.main runs again, with or without --restart, on what is on disk.
Restart(restart) ==
    /\ run < MaxRuns
    /\ run' = run + 1
    /\ LET f == _init_frontier(restart, save, now) IN
          /\ SetFrontier(f)
          /\ enqueued' = IF restart THEN Assigned(f.save)
                          ELSE enqueued \cup Assigned(f.save)
    /\ SetScraper(scraper_factory(restart, raw_stats))
    /\ UNCHANGED raw_stats
    /\ pc' = [w \in Workers |-> "loop"]
    /\ tbd_url' = [w \in Workers |-> NoUrl]
    /\ resp' = [w \in Workers |-> NoResp]
    /\ wait_until' = [w \in Workers |-> 0]
    /\ active' = [w \in Workers |-> TRUE]
    /\ mainpc' = "view"
    /\ join_idx' = 1
    /\ dispatched' = {}
    /\ last_dispatch' = [d \in Hosts |-> Never]
    /\ passed_seen' = [p \in Pages |-> 0]
    /\ accepted' = {}

\* one clock unit passes
Earlier(t) == IF t > 0 THEN t - 1 ELSE 0

Tick ==
    /\ domain_heap' = {<<Earlier(e[1]), e[2]>> : e \in domain_heap}
    /\ wait_until' = [w \in Workers |-> Earlier(wait_until[w])]
    /\ last_dispatch' = [d \in Hosts |->
                            IF last_dispatch[d] = Never \/ last_dispatch[d] = Delay
                            THEN last_dispatch[d] ELSE last_dispatch[d] + 1]
    /\ UNCHANGED <<diskVars, run, domain_queues, domains_in_heap, entry_count,
                   total_count, completed_count, active_workers, pc, tbd_url, resp,
                   active, scraperVars, mainVars, dispatched, enqueued,
                   passed_seen, accepted>>


\* --------------------------------------------------------- ThreadedWorker
\* pc[w] is "loop" at the test of `while self.active`, "get" inside
\* get_tbd_url, "fetch" with a URL to download, "exact", "exact_add", "near",
\* "near_raise" and "near_add" inside extract_next_links, "add" in the loop
\* over the scraped links, "mark" before mark_url_complete, "exit" after run
\* returned and "dead" after an exception ended the thread.
\*
\* A thread inside get_tbd_url holds the lock except in cv.wait, and cv.wait
\* returns with the lock held, so a wake-up and the evaluation of the schedule
\* that follows it are one step.  wait_until[w] is the time from which the
\* wait of w may return: its timeout, or 0 once w has been notified.

\* cv.notify_all(): every thread in cv.wait may return
NotifyAll == [w \in Workers |-> 0]

CanRun(w) == pc[w] = "get" /\ now >= wait_until[w]

\* worker.py line 39: while self.active
LoopTest(w) ==
    /\ pc[w] = "loop"
    /\ pc' = [pc EXCEPT ![w] = IF active[w] THEN "get" ELSE "exit"]
    /\ UNCHANGED <<diskVars, run, frontierVars, tbd_url, resp, wait_until,
                   active, scraperVars, mainVars, historyVars>>

\* get_tbd_url lines 112-134: the earliest domain is due; its best URL is
\* returned, unless the politeness check raises
GetUrl(w) ==
    /\ CanRun(w)
    /\ \E top \in HeapTop(domain_heap) :
          /\ now >= top[1]
          /\ IF domain_queues[top[2]] # {}
             THEN \E entry \in QueueMin(domain_queues[top[2]]) :
                     LET d == Dispatch(Frontier, top, entry, now) IN
                        /\ SetFrontier(d.f)
                        /\ pc' = [pc EXCEPT ![w] = IF d.raised THEN "dead" ELSE "fetch"]
                        /\ tbd_url' = [tbd_url EXCEPT ![w] = d.url]
                        /\ dispatched' = dispatched \cup {d.url}
                        /\ last_dispatch' = [last_dispatch EXCEPT ![top[2]] = now]
             ELSE /\ SetFrontier(DropStale(Frontier, top))
                  /\ UNCHANGED <<pc, tbd_url, dispatched, last_dispatch>>
    /\ wait_until' = [wait_until EXCEPT ![w] = 0]
    /\ UNCHANGED <<raw_stats, run, resp, active, scraperVars, mainVars,
                   enqueued, passed_seen, accepted>>

\* get_tbd_url lines 135-137: the earliest domain is not due yet
WaitDeadline(w) ==
    /\ CanRun(w)
    /\ \E top \in HeapTop(domain_heap) :
          /\ now < top[1]
          /\ wait_until' = [wait_until EXCEPT ![w] = top[1]]
    /\ UNCHANGED <<diskVars, run, frontierVars, pc, tbd_url, resp, active,
                   scraperVars, mainVars, historyVars>>

\* get_tbd_url line 144: nothing is scheduled but a URL is checked out
WaitWork(w) ==
    /\ CanRun(w)
    /\ domain_heap = {}
    /\ ~IsDone(Frontier)
    /\ wait_until' = [wait_until EXCEPT ![w] = now + WAIT_TIMEOUT]
    /\ UNCHANGED <<diskVars, run, frontierVars, pc, tbd_url, resp, active,
                   scraperVars, mainVars, historyVars>>

\* get_tbd_url lines 140-142 and worker.py lines 42-44: None, and the loop ends
ReturnNone(w) ==
    /\ CanRun(w)
    /\ IsDone(Frontier)
    /\ pc' = [pc EXCEPT ![w] = "exit"]
    /\ wait_until' = NotifyAll
    /\ UNCHANGED <<diskVars, run, frontierVars, tbd_url, resp, active,
                   scraperVars, mainVars, historyVars>>

\* download raises (utils/download.py line 24: Response(cbor.loads(...)) on a
\* payload that is no response dictionary); run has no handler, the thread
\* ends with its URL checked out
DownloadRaises(w) ==
    /\ pc[w] = "fetch"
    /\ pc' = [pc EXCEPT ![w] = "dead"]
    /\ UNCHANGED <<diskVars, run, frontierVars, tbd_url, resp, wait_until,
                   active, scraperVars, mainVars, historyVars>>

\* utils.download lines 18-31: each of its returns gives the tuple of a
\* Response and the seconds the request took, held as a record of its items
download(r) == [response |-> r, seconds |-> 0]

\* x.status exists: x is a Response
HasStatus(x) == "status" \in DOMAIN x

\* worker.py lines 45-48: resp is what download returned, and the log call
\* formats resp.status, which raises AttributeError when resp has no such
\* attribute; run has no handler, the thread ends with its URL checked out
StatusRaises(w, x) ==
    /\ pc[w] = "fetch"
    /\ ~HasStatus(x)
    /\ pc' = [pc EXCEPT ![w] = "dead"]
    /\ UNCHANGED <<diskVars, run, frontierVars, tbd_url, resp, wait_until,
                   active, scraperVars, mainVars, historyVars>>

\* the first checks without the seen-page check
FirstChecksUnseen(url, r, seen) ==
    IF r.status # 200 \/ r.size = "none" THEN "rejected"
    ELSE IF r.size = "huge" THEN "rejected"
    ELSE IF detect_trap(Lower(url)) THEN "rejected"
    ELSE "parse"

\* what extract_next_links does with response r before it parses the body:
\* "seen", "rejected" or "parse"
FirstChecks(url, r, seen) ==
    IF Page(url) \in seen THEN "seen"
    ELSE IF r.status # 200 \/ r.size = "none" THEN "rejected"
    ELSE IF detect_large(r) THEN "rejected"
    ELSE IF detect_trap(Lower(url)) THEN "rejected"
    ELSE "parse"

\* the tokens update_analytics counts: no stop word, longer than one
\* character, not a number
Counted(token) == Len(token) > 1

\* url.in_domain("uci.edu")
in_domain_uci(url) == url.host[Len(url.host)] = ".uci.edu"

\* update_analytics under Scraper.lock
UpdateAnalytics(raw, words) ==
    LET url == Lower(raw)
        word_count == Len(words)
    IN  /\ word_freq' = [t \in Tokens |->
                            word_freq[t] + IF Counted(t) THEN Freq(words, t) ELSE 0]
        /\ IF word_count > highest_word_count
           THEN /\ highest_word_count' = word_count
                /\ longest_url' = Page(url)
           ELSE UNCHANGED <<highest_word_count, longest_url>>
        /\ subdomain_freq' = IF in_domain_uci(url)
                             THEN [subdomain_freq EXCEPT ![url.host] = @ + 1]
                             ELSE subdomain_freq
        /\ accepted' = accepted \cup {<<Page(url), words>>}

NoAnalytics == UNCHANGED <<word_freq, highest_word_count, longest_url,
                           subdomain_freq, accepted>>

\* extract_next_links from line 346 on, for a page that is no duplicate:
\* detect_low_info, update_analytics, and the loop over the anchors, where
\* urljoin raises ValueError on a malformed href (line 359, outside the try)
\* and ends the thread, run having no handler
Finish(w, r, bad_href) ==
    IF detect_low_info(r, Len(r.words))
    THEN /\ NoAnalytics
         /\ pc' = [pc EXCEPT ![w] = "mark"]
    ELSE /\ UpdateAnalytics(tbd_url[w], r.words)
         /\ pc' = [pc EXCEPT ![w] = IF bad_href THEN "dead" ELSE "add"]

\* the worker holds the Response r and scraper.scrape(resp) runs to its end
\* before any other thread takes a step: extract_next_links as one step
Scrape(w, r, bad_href) ==
    /\ pc[w] = "fetch"
    /\ HasStatus(r)
    /\ LET page == Page(tbd_url[w])
           verdict == FirstChecks(tbd_url[w], r, seen_urls)
           exact_dup == /\ r.words # <<>>
                        /\ ContentHash(r.words) \in seen_exact_content_hashes
           near_dup == /\ r.words # <<>>
                       /\ \E seen_hash \in seen_near_content_hashes :
                             Similar(Simhash(r.words), seen_hash)
           hashed == verdict = "parse" /\ r.words # <<>> /\ ~exact_dup
       IN  /\ seen_urls' = seen_urls \cup {page}
           /\ passed_seen' = IF verdict = "seen" THEN passed_seen
                             ELSE [passed_seen EXCEPT ![page] = @ + 1]
           /\ seen_exact_content_hashes' =
                 IF hashed
                 THEN seen_exact_content_hashes \cup {ContentHash(r.words)}
                 ELSE seen_exact_content_hashes
           /\ seen_near_content_hashes' =
                 IF hashed /\ ~near_dup
                 THEN seen_near_content_hashes \cup {Simhash(r.words)}
                 ELSE seen_near_content_hashes
           /\ IF verdict = "parse" /\ ~exact_dup /\ ~near_dup
              THEN Finish(w, r, bad_href)
              ELSE /\ pc' = [pc EXCEPT ![w] = "mark"]
                   /\ NoAnalytics
    /\ UNCHANGED <<diskVars, run, frontierVars, tbd_url, resp, wait_until,
                   active, mainVars, dispatched, last_dispatch, enqueued>>

\* the worker holds the Response r; extract_next_links lines 315-328, whose
\* seen-page check runs under Scraper.lock.  A page without words passes both
\* duplicate detectors without a look at their sets (lines 174 and 196), so
\* the rest of extract_next_links is part of this step.
ScrapeStart(w, r, bad_href) ==
    /\ pc[w] = "fetch"
    /\ HasStatus(r)
    /\ LET page == Page(tbd_url[w])
           verdict == FirstChecks(tbd_url[w], r, seen_urls)
       IN  /\ seen_urls' = seen_urls \cup {page}
           /\ passed_seen' = IF verdict = "seen" THEN passed_seen
                             ELSE [passed_seen EXCEPT ![page] = @ + 1]
           /\ IF verdict # "parse"
              THEN /\ pc' = [pc EXCEPT ![w] = "mark"]
                   /\ NoAnalytics
                   /\ UNCHANGED resp
              ELSE IF r.words = <<>>
              THEN /\ Finish(w, r, bad_href)
                   /\ UNCHANGED resp
              ELSE /\ pc' = [pc EXCEPT ![w] = "exact"]
                   /\ NoAnalytics
                   /\ resp' = [resp EXCEPT ![w] = r]
    /\ UNCHANGED <<diskVars, run, frontierVars, tbd_url, wait_until, active,
                   seen_exact_content_hashes, seen_near_content_hashes, mainVars,
                   dispatched, last_dispatch, enqueued>>

\* detect_exact_similar lines 177-182: the test, made without Scraper.lock
ExactCheck(w) ==
    /\ pc[w] = "exact"
    /\ pc' = [pc EXCEPT ![w] =
                 IF ContentHash(resp[w].words) \in seen_exact_content_hashes
                 THEN "mark" ELSE "exact_add"]
    /\ UNCHANGED <<diskVars, run, frontierVars, tbd_url, resp, wait_until,
                   active, scraperVars, mainVars, historyVars>>

\* detect_exact_similar line 184
ExactAdd(w) ==
    /\ pc[w] = "exact_add"
    /\ seen_exact_content_hashes' =
          seen_exact_content_hashes \cup {ContentHash(resp[w].words)}
    /\ pc' = [pc EXCEPT ![w] = "near"]
    /\ UNCHANGED <<diskVars, run, frontierVars, tbd_url, resp, wait_until,
                   active, seen_urls, seen_near_content_hashes, word_freq,
                   subdomain_freq, longest_url, highest_word_count, mainVars,
                   historyVars>>

\* detect_near_similar lines 199-225: the comparison with the seen
\* fingerprints, made without Scraper.lock
NearCheck(w) ==
    /\ pc[w] = "near"
    /\ pc' = [pc EXCEPT ![w] =
                 IF \E seen_hash \in seen_near_content_hashes :
                       Similar(Simhash(resp[w].words), seen_hash)
                 THEN "mark" ELSE "near_add"]
    /\ UNCHANGED <<diskVars, run, frontierVars, tbd_url, resp, wait_until,
                   active, scraperVars, mainVars, historyVars>>

\* detect_near_similar line 227, and the rest of extract_next_links.  The
\* set is written without Scraper.lock: when it grows while another thread
\* is in the loop of lines 221-225 over it, that thread's set iterator raises
\* RuntimeError at its next step.  `raises` says whether the workers at
\* "near" are in their loop.
NearAdd(w, bad_href, raises) ==
    /\ pc[w] = "near_add"
    /\ seen_near_content_hashes' =
          seen_near_content_hashes \cup {Simhash(resp[w].words)}
    /\ LET r == resp[w]
           grows == Simhash(r.words) \notin seen_near_content_hashes
           low == detect_low_info(r, Len(r.words))
       IN  /\ IF low THEN NoAnalytics ELSE UpdateAnalytics(tbd_url[w], r.words)
           /\ pc' = [v \in Workers |->
                        IF v = w
                        THEN IF low THEN "mark" ELSE IF bad_href THEN "dead" ELSE "add"
                        ELSE IF pc[v] = "near" /\ grows /\ raises
                        THEN "near_raise"
                        ELSE pc[v]]
    /\ UNCHANGED <<diskVars, run, frontierVars, tbd_url, resp, wait_until,
                   active, seen_urls, seen_exact_content_hashes, mainVars,
                   dispatched, last_dispatch, enqueued, passed_seen>>

\* the RuntimeError of the set iterator leaves detect_near_similar and is
\* caught in extract_next_links (lines 352-354), which returns no links
NearRaises(w) ==
    /\ pc[w] = "near_raise"
    /\ pc' = [pc EXCEPT ![w] = "mark"]
    /\ UNCHANGED <<diskVars, run, frontierVars, tbd_url, resp, wait_until,
                   active, scraperVars, mainVars, historyVars>>

\* worker.py lines 50-51: one link of scraped, which holds the valid links
\* the worker's add_url without its cv.notify_all()
AddUrlSilent(w, href, score) ==
    /\ pc[w] = "add"
    /\ is_valid(href)
    /\ LET f == add_url(Frontier, href, score, now) IN
          /\ SetFrontier(f)
          /\ enqueued' = enqueued \cup Assigned(f.save)
    /\ UNCHANGED <<raw_stats, run, pc, tbd_url, resp, wait_until, active,
                   scraperVars, mainVars, dispatched, last_dispatch, passed_seen,
                   accepted>>

AddUrl(w, href, score) ==
    /\ pc[w] = "add"
    /\ is_valid(href)
    /\ LET f == add_url(Frontier, href, score, now) IN
          /\ SetFrontier(f)
          /\ enqueued' = enqueued \cup Assigned(f.save)
          /\ wait_until' = IF f = Frontier THEN wait_until ELSE NotifyAll
    /\ UNCHANGED <<raw_stats, run, pc, tbd_url, resp, active, scraperVars,
                   mainVars, dispatched, last_dispatch, passed_seen, accepted>>

\* worker.py line 52
MarkUrlComplete(w) ==
    /\ pc[w] \in {"add", "mark"}
    /\ SetFrontier(mark_url_complete(Frontier, tbd_url[w]))
    /\ wait_until' = IF get_urlhash(tbd_url[w]) \in DOMAIN save
                     THEN NotifyAll ELSE wait_until
    /\ pc' = [pc EXCEPT ![w] = "loop"]
    /\ tbd_url' = [tbd_url EXCEPT ![w] = NoUrl]
    /\ resp' = [resp EXCEPT ![w] = NoResp]
    /\ UNCHANGED <<raw_stats, run, active, scraperVars, mainVars, historyVars>>

\* frontier.mark_url_complete(url) called by a worker at the end of its turn
\* with a URL that has no record, in place of the URL it was given
MarkUnknown(w, url) ==
    /\ pc[w] \in {"add", "mark"}
    /\ get_urlhash(url) \notin DOMAIN save
    /\ SetFrontier(mark_url_complete(Frontier, url))
    /\ pc' = [pc EXCEPT ![w] = "loop"]
    /\ tbd_url' = [tbd_url EXCEPT ![w] = NoUrl]
    /\ resp' = [resp EXCEPT ![w] = NoResp]
    /\ UNCHANGED <<raw_stats, run, wait_until, active, scraperVars, mainVars,
                   historyVars>>

\* ---------------------------------------------------------- Crawler.start

Finished(w) == pc[w] \in {"exit", "dead"}

\* view_progress returns: lines 35 and 47
ViewProgressBreak ==
    /\ mainpc = "view"
    /\ \/ completed_count >= total_count /\ active_workers = 0
       \/ \A w \in Workers : Finished(w)
    /\ mainpc' = "join"
    /\ UNCHANGED <<diskVars, run, frontierVars, workerVars, scraperVars,
                   join_idx, historyVars>>

\* Crawler.start lines 56-57
KeyboardInterrupt ==
    /\ mainpc = "view"
    /\ mainpc' = "join"
    /\ UNCHANGED <<diskVars, run, frontierVars, workerVars, scraperVars,
                   join_idx, historyVars>>

\* Crawler.join: worker.stop()
Stop ==
    /\ mainpc = "join"
    /\ active[join_idx]
    /\ active' = [active EXCEPT ![join_idx] = FALSE]
    /\ UNCHANGED <<diskVars, run, frontierVars, pc, tbd_url, resp, wait_until,
                   scraperVars, mainVars, historyVars>>

\* Crawler.join: worker.join() returns once the thread has ended
Join ==
    /\ mainpc = "join"
    /\ ~active[join_idx]
    /\ Finished(join_idx)
    /\ IF join_idx < NumWorkers
       THEN join_idx' = join_idx + 1 /\ mainpc' = mainpc
       ELSE join_idx' = join_idx /\ mainpc' = "stats"
    /\ UNCHANGED <<diskVars, run, frontierVars, workerVars, scraperVars,
                   historyVars>>

\* Crawler.get_stats writes raw_stats.pkl
GetStats ==
    /\ mainpc = "stats"
    /\ mainpc' = "end"
    /\ raw_stats' =
          [seen_urls |-> seen_urls,
           seen_exact_content_hashes |-> seen_exact_content_hashes,
           seen_near_content_hashes |-> seen_near_content_hashes,
           word_freq |-> word_freq, subdomain_freq |-> subdomain_freq,
           longest_url |-> longest_url, highest_word_count |-> highest_word_count]
    /\ UNCHANGED <<save, run, frontierVars, workerVars, scraperVars, join_idx,
                   historyVars>>

\* ----------------------------------------------------------- specification

\* the steps of worker w outside scraper.scrape, on the web L whose links
\* have scores from S
FrontierStep(w, L, S) ==
    \/ LoopTest(w)
    \/ GetUrl(w)
    \/ WaitDeadline(w)
    \/ WaitWork(w)
    \/ ReturnNone(w)
    \/ DownloadRaises(w)
    \/ \E href \in LinksOf(L, tbd_url[w]), score \in S : AddUrl(w, href, score)
    \/ MarkUrlComplete(w)

\* the steps of worker w inside scraper.scrape, one for each access to the
\* state the workers share, on a web that answers from R
FilterStep(w, R) ==
    \/ \E r \in R, bad_href \in BOOLEAN : ScrapeStart(w, r, bad_href)
    \/ ExactCheck(w)
    \/ ExactAdd(w)
    \/ NearCheck(w)
    \/ \E bad_href, raises \in BOOLEAN : NearAdd(w, bad_href, raises)
    \/ NearRaises(w)

\* Crawler.start without an interrupt: view_progress, join, get_stats
MainStep ==
    \/ ViewProgressBreak
    \/ Stop
    \/ Join
    \/ GetStats

\* one process whose workers are handed the Response itself by their fetcher,
\* as run and scrape take it, and scrape a page in one step
Crawl(R, L, S) ==
    \/ Tick
    \/ \E w \in Workers : FrontierStep(w, L, S)
    \/ \E w \in Workers, r \in R, bad_href \in BOOLEAN : Scrape(w, r, bad_href)
    \/ MainStep

\* the responses without words: a fault, or a body of any size in which the
\* tokenizer finds no word
Wordless == {r \in Responses : r.words = <<>>}

\* Spec: one process, from a fresh start to its end, on the web Links of
\* pages without words
Next == Crawl(Wordless, Links, Scores)

Spec == Init /\ [][Next]_vars

\* SpecFilter: one process whose workers interleave inside scraper.scrape,
\* on the web LinksToA of pages with and without words
NextFilter ==
    \/ Tick
    \/ \E w \in Workers : FrontierStep(w, LinksToA, {0})
    \/ \E w \in Workers : FilterStep(w, Responses)
    \/ MainStep

SpecFilter == Init /\ [][NextFilter]_vars

\* SpecRestart: up to MaxRuns processes, each started on what the one before
\* left on disk when it ended or was killed
NextRestart ==
    \/ Crawl(Wordless, LinksToA, Scores)
    \/ \E restart \in BOOLEAN : Restart(restart)

SpecRestart == Init /\ [][NextRestart]_vars

\* SpecApi: one process in which a worker may end its turn with
\* mark_url_complete on a URL that was never enqueued
NextApi ==
    \/ Crawl(Wordless, LinksToA, {0})
    \/ \E w \in Workers, url \in CrawlUrls : MarkUnknown(w, url)

SpecApi == Init /\ [][NextApi]_vars

\* SpecInterrupt: one process whose view_progress may be interrupted from the
\* keyboard at any time, on the web LinksToA
NextInterrupt ==
    \/ Crawl(Wordless, LinksToA, {0})
    \/ KeyboardInterrupt

SpecInterrupt == Init /\ [][NextInterrupt]_vars

\* SpecUrl: the seen-page check of extract_next_links on any two URL strings
NextUrl == \E w \in Workers : Scrape(w, Fault, FALSE)

SpecUrl == InitUrl /\ [][NextUrl]_vars

\* SpecAcross: one process on the web LinksAcross, where a bucket gets a URL
\* while the other bucket waits for its deadline
NextAcross == Crawl(Wordless, LinksAcross, {0})

SpecAcross == Init /\ [][NextAcross]_vars

\* _add_to_memory lines 100-105 on the URL of worker w, in a frontier whose
\* config.seed_urls name the hosts valid_domains: the URL's domain bucket
\* enters the schedule
ScheduleBucket(w, valid_domains) ==
    /\ pc[w] = "fetch"
    /\ LET domain == MatchSeedIn(valid_domains, tbd_url[w].host, 1) IN
          /\ domain_heap' = IF domain \in domains_in_heap THEN domain_heap
                            ELSE domain_heap \cup {<<now, domain>>}
          /\ domains_in_heap' = domains_in_heap \cup {domain}
    /\ pc' = [pc EXCEPT ![w] = "mark"]
    /\ UNCHANGED <<diskVars, run, domain_queues, entry_count, total_count,
                   completed_count, active_workers, tbd_url, resp, wait_until,
                   active, scraperVars, mainVars, historyVars>>

\* SpecDomain: _get_domain on the URLs the workers hold, for any seed list
NextDomain == \E w \in Workers, valid_domains \in SeedLists : ScheduleBucket(w, valid_domains)

SpecDomain == InitDomain /\ [][NextDomain]_vars

\* SpecPage: scraper.scrape on the responses the workers hold
NextPage == \E w \in Workers, bad_href \in BOOLEAN : Scrape(w, resp[w], bad_href)

SpecPage == InitPage /\ [][NextPage]_vars

\* SpecNear: two workers in detect_near_similar and in the rest of
\* extract_next_links, on any two word lists of NearContents
NextNear ==
    \/ Tick
    \/ \E w \in Workers : NearCheck(w) \/ NearRaises(w)
    \/ \E w \in Workers, bad_href, raises \in BOOLEAN : NearAdd(w, bad_href, raises)

SpecNear == InitNear /\ [][NextNear]_vars

\* SpecReplay: up to MaxRuns processes on one store, each but the first
\* started without the restart flag, on the web LinksToPdf
NextReplay ==
    \/ Crawl(Wordless, LinksToPdf, {0})
    \/ Restart(FALSE)

SpecReplay == Init /\ [][NextReplay]_vars

\* SpecWorker: up to MaxRuns processes whose workers fetch with utils.download
\* as it is, with or without an interrupt of view_progress
NextWorker ==
    \/ Tick
    \/ \E w \in Workers : LoopTest(w) \/ GetUrl(w) \/ DownloadRaises(w)
    \/ \E w \in Workers, r \in Responses : StatusRaises(w, download(r))
    \/ MainStep
    \/ KeyboardInterrupt
    \/ \E restart \in BOOLEAN : Restart(restart)

SpecWorker == Init /\ [][NextWorker]_vars

\* ------------------------------------------------------------ properties

\* get_tbd_url returns a URL to worker w in this step
Dispatches(w) == tbd_url[w] = NoUrl /\ tbd_url'[w] # NoUrl

\* the persisted record of a URL
Record(url) == save[get_urlhash(url)]

\* C1: any two consecutive dispatches of URLs of one domain bucket are at
\* least Delay apart, whether the bucket stayed in the schedule between them
\* or its queue became empty and was refilled
Politeness ==
    [][\A w \in Workers :
          Dispatches(w)
          => last_dispatch[_get_domain(tbd_url'[w])] \in {Never, Delay}]_vars

\* C2: get_tbd_url returns None only when every domain queue is empty, the
\* schedule is empty, active_workers is 0 and no worker holds a URL that it
\* has not marked complete
TerminationSafety ==
    [][\A w \in Workers :
          (pc[w] = "get" /\ pc'[w] = "exit")
          => /\ \A d \in Hosts : domain_queues[d] = {}
             /\ domain_heap = {}
             /\ active_workers = 0
             /\ \A v \in Workers : tbd_url[v] = NoUrl]_vars

\* a worker left its loop because get_tbd_url returned None, after URLs
\* were completed
ReturnedNone ==
    \E w \in Workers :
       /\ pc[w] = "exit"
       /\ active[w]
       /\ completed_count = total_count
       /\ completed_count >= Len(Seeds)

\* C3: once the schedule is empty and no worker will produce another URL
\* (every worker is inside get_tbd_url or has ended), get_tbd_url returns
\* None, so that no worker stays inside get_tbd_url forever
TerminationLiveness ==
    (/\ domain_heap = {}
     /\ \A w \in Workers : pc[w] \in {"get", "exit", "dead"}
     /\ \E w \in Workers : pc[w] = "get")
    => IsDone(Frontier)

\* C4: a second Enqueue of a URL, with any score and from any worker, changes
\* nothing and leaves the URL's one record with the score and the sequence
\* number of the first Enqueue
IdempotentDiscovery ==
    \A w \in Workers, score \in Scores :
    \A href \in LinksOf(Links, tbd_url[w]) :
       LET url == normalize(href)
           first == {e \in enqueued : e[1] = url}
           f == add_url(Frontier, href, score, now)
           record == f.save[get_urlhash(url)]
       IN  (pc[w] = "add" /\ is_valid(href) /\ first # {})
           => /\ f = Frontier
              /\ \A e \in first :
                    Len(record) = 4 /\ record[3] = e[2] /\ record[4] = e[3]

\* C5: a dispatch for a bucket returns, among the entries of the bucket's
\* queue, the one with the highest score, and among those of equal score the
\* one with the smallest sequence number
PriorityOrdering ==
    [][\A w \in Workers :
          Dispatches(w)
          => LET url == tbd_url'[w] IN
             \A e \in domain_queues[_get_domain(url)] :
                \/ Record(e[3])[3] < Record(url)[3]
                \/ /\ Record(e[3])[3] = Record(url)[3]
                   /\ Record(url)[4] <= Record(e[3])[4]]_vars

\* a worker holds a URL that was dispatched ahead of one enqueued before it
\* with a lower score, which is still in the queue
HigherScoreFirst ==
    \E w \in Workers :
       /\ tbd_url[w] # NoUrl
       /\ pc[w] = "fetch"
       /\ \E e \in domain_queues[_get_domain(tbd_url[w])] :
             /\ Record(e[3])[4] < Record(tbd_url[w])[4]
             /\ Record(e[3])[3] < Record(tbd_url[w])[3]

\* the hash sets and the statistics of the scraper
filterVars == <<seen_exact_content_hashes, seen_near_content_hashes, word_freq,
                subdomain_freq, longest_url, highest_word_count>>

\* C9: of all the calls of extract_next_links on URLs of one page at most
\* one passes the seen-page check, and a call that does not pass returns no
\* links and leaves the hash sets and the statistics alone
SeenPageOnce ==
    /\ [](\A p \in Pages : passed_seen[p] <= 1)
    /\ [][\A w \in Workers :
             (/\ pc[w] = "fetch"
              /\ pc'[w] \notin {"fetch", "dead"}
              /\ Page(tbd_url[w]) \in seen_urls)
             => pc'[w] = "mark" /\ UNCHANGED filterVars]_vars

\* two URLs of one page were both scraped, and one call passed the check
AliasRejected ==
    \E u1, u2 \in dispatched :
       /\ u1 # u2
       /\ Page(u1) = Page(u2)
       /\ Len(Record(u1)) = 2
       /\ Len(Record(u2)) = 2
       /\ passed_seen[Page(u1)] = 1

\* C10: get_tbd_url returns each URL at most once in one process, also when
\* the URL is enqueued again after its dispatch or its completion
DispatchedOnce ==
    [][\A w \in Workers : Dispatches(w) => tbd_url'[w] \notin dispatched]_vars

\* a worker that scraped links can enqueue the first seed again, which was
\* dispatched and completed, and no URL is left to dispatch
ReEnqueueCompleted ==
    \E w \in Workers :
       /\ pc[w] = "add"
       /\ U_rootSlash \in LinksOf(Links, tbd_url[w])
       /\ is_valid(U_rootSlash)
       /\ normalize(U_rootSlash) = Seeds[1]
       /\ Seeds[1] \in dispatched
       /\ Len(Record(Seeds[1])) = 2
       /\ domain_heap = {}

\* the URLs in the domain queues
Queued == UNION {{e[3] : e \in domain_queues[d]} : d \in Hosts}

\* C6: a URL whose persisted record is marked completed is in no domain
\* queue and is not dispatched, in the run that completed it and in every
\* run started later without the restart flag, wherever the earlier run ended
NoRecrawl ==
    \A h \in DOMAIN save :
       save[h][2]
       => /\ save[h][1] \notin Queued
          /\ \A w \in Workers : tbd_url[w] # save[h][1]

\* a later run has dispatched a URL while the store holds a record that an
\* earlier run marked completed
ResumedPastCompleted ==
    /\ run > 1
    /\ dispatched # {}
    /\ \E h \in DOMAIN save : save[h][2] /\ save[h][1] \notin dispatched

\* C7: every sequence number Enqueue assigns is strictly greater than all
\* the sequence numbers assigned before it, in this run and in the runs
\* before it, to URLs completed since or not
SequenceNumbersIncrease ==
    [][\A e \in enqueued' \ enqueued :
          run' = run => \A o \in enqueued : o[3] < e[3]]_vars

\* C8: of two pages with different canonical URLs and the same token
\* sequence, the empty one too, at most one reaches update_analytics and the
\* link extraction, however two workers interleave in extract_next_links
ExactDuplicateOnce ==
    \A a, b \in accepted : a[1] # b[1] => a[2] # b[2]

\* C11: a worker to which get_tbd_url returned a URL does not leave its loop
\* before it has called mark_url_complete on that URL, whatever the fetch
\* and the filter give, so that every checkout is completed and
\* active_workers returns to 0
CheckoutCompleted ==
    \A w \in Workers : Finished(w) => tbd_url[w] = NoUrl

\* the URLs the workers hold
CheckedOut == {tbd_url[w] : w \in Workers} \ {NoUrl}

\* the store holds a record of a URL that is not complete
Incomplete(store, url) ==
    /\ get_urlhash(url) \in DOMAIN store
    /\ store[get_urlhash(url)][1] = url
    /\ ~store[get_urlhash(url)][2]

\* C12: at every point, and so wherever the process is killed, every URL in
\* a domain queue or held by a worker has a record in the store, and a
\* start without the restart flag puts every such URL whose record is not
\* complete back into its queue
WriteAhead ==
    /\ [](\A url \in Queued \cup CheckedOut :
             /\ get_urlhash(url) \in DOMAIN save
             /\ save[get_urlhash(url)][1] = url)
    /\ [][(run' # run /\ save' = save)
          => \A url \in Queued \cup CheckedOut :
                Incomplete(save, url) => url \in Queued']_vars

\* worker w ends its turn in this step: it calls mark_url_complete
Completes(w) == pc[w] \in {"add", "mark"} /\ pc'[w] = "loop"

CounterInvariant == completed_count <= total_count

\* a run that replayed the store has completed every URL, those it found
\* in the store and those it discovered
ReplayedAllCompleted ==
    /\ run > 1
    /\ dispatched # {}
    /\ completed_count = total_count
    /\ total_count > Len(Seeds)
    /\ \A h \in DOMAIN save : save[h][2]

\* C15: a worker on which stop() was called obtains no URL from get_tbd_url
\* any more, also when it was inside get_tbd_url when stop() was called; it
\* finishes the URL it holds at most and leaves its loop
NoDequeueAfterStop ==
    [][\A w \in Workers : Dispatches(w) => active[w]]_vars

\* C16: a record of the store is never deleted and its completed flag never
\* goes back to false, whatever is enqueued, dequeued and completed and
\* however often the process is started again without the restart flag
RecordsMonotonic ==
    [][\A h \in DOMAIN save :
          /\ h \in DOMAIN save'
          /\ save'[h][1] = save[h][1]
          /\ save[h][2] => save'[h][2]]_vars

\* a later run has completed a URL, and the store still holds the completed
\* record of a URL that an earlier run completed
KeptCompleted ==
    /\ run > 1
    /\ \E h \in DOMAIN save : save[h][2] /\ save[h][1] \in dispatched
    /\ \E h \in DOMAIN save : save[h][2] /\ save[h][1] \notin dispatched

\* two URL strings with the same scheme, host, path without its trailing "/"
\* and query, whatever their case and their fragments
SameParts(a, b) ==
    /\ a.scheme = b.scheme
    /\ a.host = b.host
    /\ a.path = b.path
    /\ a.query = b.query

Fingerprint(w) == Simhash(resp[w].words)

\* a recorded fingerprint at Hamming distance 3 or less
NearRecorded(f) ==
    \E g \in seen_near_content_hashes : Hamming(f, g) <= 3

\* C18: detect_near_similar turns a page down exactly when a recorded
\* fingerprint is at Hamming distance 3 or less of the page's (similarity
\* 0.95 or more), without recording the page's fingerprint, and otherwise
\* records it; bit i of a fingerprint is set exactly when the weighted sum
\* of position i is strictly positive
NearDuplicateRule ==
    [][\A w \in Workers :
          /\ (pc[w] \in {"near", "near_raise"} /\ pc'[w] = "mark")
             => /\ NearRecorded(Fingerprint(w))
                /\ UNCHANGED seen_near_content_hashes
          /\ (pc[w] = "near" /\ pc'[w] \in {"near_add", "near_raise"})
             => ~NearRecorded(Fingerprint(w))
          /\ (pc[w] = "near_add" /\ pc'[w] # "near_add")
             => /\ Fingerprint(w) \in seen_near_content_hashes'
                /\ Fingerprint(w) = {i \in Bits : V(resp[w].words, i) > 0}]_vars

\* C19: a dispatch of a URL of domain bucket d raises ValueError, and hands
\* out no URL, exactly when less than the politeness delay has passed since
\* the previous dispatch of a URL of d
TooSoon(domain) == last_dispatch[domain] \notin {Never, Delay}

PolitenessAssertion ==
    [][\A w \in Workers :
          Dispatches(w)
          => (pc'[w] = "dead" <=> TooSoon(_get_domain(tbd_url'[w])))]_vars

\* C20: whenever the frontier lock is free, also while a dequeuer sleeps in
\* cv.wait, the schedule holds exactly one entry for each domain bucket with a
\* non-empty queue and none for any other bucket, domains_in_heap is the set
\* of the buckets in the schedule, and no scheduled bucket has an empty queue
Scheduled(domain) == {e \in domain_heap : e[2] = domain}

ScheduleConsistency ==
    /\ \A d \in Hosts :
          Cardinality(Scheduled(d)) = IF domain_queues[d] # {} THEN 1 ELSE 0
    /\ domains_in_heap = {e[2] : e \in domain_heap}
    /\ \A d \in domains_in_heap : domain_queues[d] # {}

\* a bucket was emptied and refilled and is scheduled again, another one was
\* emptied and left the schedule, and a dequeuer sleeps until the deadline
RescheduledWhileWaiting ==
    /\ \E d, e \in Hosts :
          /\ last_dispatch[d] # Never /\ last_dispatch[e] # Never
          /\ Cardinality(domain_queues[d]) > 1 /\ d \in domains_in_heap
          /\ domain_queues[e] = {} /\ e \notin domains_in_heap
    /\ \E w \in Workers : pc[w] = "get" /\ wait_until[w] > now

\* C21: mark_url_complete on a URL whose record is (url, FALSE, score, count)
\* sets the completed flag of that record and changes neither its url, score
\* and count fields nor the record of any other URL
MarkCompleteInPlace ==
    [][\A w \in Workers :
          (/\ Completes(w)
           /\ get_urlhash(tbd_url[w]) \in DOMAIN save
           /\ Len(Record(tbd_url[w])) = 4)
          => /\ save'[get_urlhash(tbd_url[w])]
                   = [Record(tbd_url[w]) EXCEPT ![2] = TRUE]
             /\ \A h \in DOMAIN save \ {get_urlhash(tbd_url[w])} :
                   h \in DOMAIN save' /\ save'[h] = save[h]]_vars

\* the schedule entries of a domain after the step
ScheduledNext(domain) == {e \in domain_heap' : e[2] = domain}

\* C22: a dispatch of a URL of domain bucket d at time t puts d back into
\* the schedule at t + Delay or later when its queue is not empty afterwards,
\* and no URL of d is dispatched before that time; it removes d from the
\* schedule and from domains_in_heap when its queue is empty afterwards; in
\* both cases active_workers grows by exactly 1
RescheduleOnDispatch ==
    [][/\ \A w \in Workers :
             Dispatches(w)
             => LET d == _get_domain(tbd_url'[w]) IN
                /\ active_workers' = active_workers + 1
                /\ \A e \in Scheduled(d) : e[1] <= now
                /\ IF domain_queues'[d] # {}
                   THEN /\ ScheduledNext(d) # {}
                        /\ \A e \in ScheduledNext(d) : e[1] >= now + Delay
                        /\ d \in domains_in_heap'
                   ELSE ScheduledNext(d) = {} /\ d \notin domains_in_heap'
       /\ \A d \in Hosts : \A e \in Scheduled(d) :
             e[1] > now => ScheduledNext(d) \in {{e}, {<<Earlier(e[1]), d>>}}]_vars

\* a bucket has just been put back into the schedule by a dispatch while
\* another one has left it
Rescheduled ==
    \E d, e \in Hosts :
       /\ last_dispatch[d] = now /\ domain_queues[d] # {}
       /\ Scheduled(d) = {<<now + Delay, d>>}
       /\ last_dispatch[e] # Never /\ domain_queues[e] = {} /\ Scheduled(e) = {}
       /\ active_workers = NumWorkers

\* the step records a URL that had no record
EnqueuesUnseen == run' = run /\ DOMAIN save' # DOMAIN save

\* C23: an add_url of a URL without a record wakes every worker that waits in
\* get_tbd_url, for a deadline or on the empty schedule, and schedules the
\* URL's bucket at the present time when it was not scheduled; at no time does
\* a worker go on waiting in get_tbd_url while a scheduled bucket is due, so
\* the URL is handed out by the next dequeuer that runs
EarlyWakeUp ==
    /\ []((\E e \in domain_heap : e[1] <= now)
            => \A w \in Workers : pc[w] = "get" => CanRun(w))
    /\ [][EnqueuesUnseen
            => /\ \A w \in Workers : wait_until'[w] <= now
               /\ \A h \in DOMAIN save' \ DOMAIN save :
                     _get_domain(save'[h][1]) \notin domains_in_heap
                     => /\ <<now, _get_domain(save'[h][1])>> \in domain_heap'
                        /\ save'[h][1] \in Queued']_vars

\* the stat bucket has been scheduled at the present time by a link to a new
\* stat URL while the ics bucket waits for its deadline, and a worker inside
\* get_tbd_url can run
WokenForNewBucket ==
    /\ U_statA \in Queued
    /\ <<now, STAT>> \in domain_heap
    /\ \E e \in Scheduled(ICS) : e[1] > now
    /\ \E w, v \in Workers :
          /\ pc[w] = "get" /\ CanRun(w)
          /\ pc[v] = "add" /\ tbd_url[v] = U_a

\* nothing is queued, scheduled or checked out
NothingLeft ==
    /\ domain_heap = {}
    /\ \A d \in Hosts : domain_queues[d] = {}
    /\ active_workers = 0
    /\ \A w \in Workers : tbd_url[w] = NoUrl

\* C24: when get_tbd_url returns None to a worker, nothing is left and every
\* waiting worker is woken; from then on, in that process, nothing is left at
\* any time, no URL is dispatched, and a worker inside get_tbd_url starts no
\* new wait and leaves it only with None
DonePropagates ==
    [][/\ (\E w \in Workers : pc[w] = "get" /\ pc'[w] = "exit")
          => NothingLeft' /\ \A v \in Workers : wait_until'[v] <= now
       /\ (NothingLeft /\ run' = run)
          => /\ NothingLeft'
             /\ \A w \in Workers :
                   /\ ~Dispatches(w)
                   /\ pc[w] = "get"
                      => /\ pc'[w] \in {"get", "exit"}
                         /\ wait_until'[w] <= wait_until[w]]_vars

\* every worker left its loop with None, after links were crawled
AllReturnedNone ==
    /\ \A w \in Workers : pc[w] = "exit" /\ active[w]
    /\ completed_count = total_count
    /\ total_count > Len(Seeds)

\* the store after the seeds were added to an empty one
SeedStore ==
    [h \in {get_urlhash(normalize(Seeds[i])) : i \in DOMAIN Seeds} |->
        LET i == CHOOSE j \in DOMAIN Seeds : get_urlhash(normalize(Seeds[j])) = h
        IN  <<normalize(Seeds[i]), FALSE, 0, i>>]

\* the entries of all domain queues of a frontier
Entries(f) == UNION {f.domain_queues[d] : d \in Hosts}

\* the records of a store that a replay puts back into the queues
Replayable(store) ==
    {h \in DOMAIN store :
        Len(store[h]) = 4 /\ ~store[h][2] /\ is_valid(store[h][1])}

\* a start with or without the restart flag on a store
StartsAsSpecified(restart, store) ==
    LET f == _init_frontier(restart, store, now) IN
    /\ \A e \in Entries(f) : e \in f.domain_queues[_get_domain(e[3])]
    /\ IF restart \/ DOMAIN store = {}
       THEN /\ f.save = SeedStore
            /\ Entries(f) = {QueueKey(0, i, normalize(Seeds[i])) : i \in DOMAIN Seeds}
       ELSE /\ f.save = store
            /\ Entries(f) = {QueueKey(store[h][3], store[h][4], store[h][1]) :
                                h \in Replayable(store)}
            /\ f.total_count = Cardinality(DOMAIN store)
            /\ f.total_count - f.completed_count = Cardinality(Entries(f))

\* C25: a start with the restart flag, or without it on no or an empty store,
\* leaves a store and queues that hold exactly the seeds; a start without the
\* flag on a non-empty store keeps the store, adds no seed, queues exactly
\* the URLs whose four-field record is not complete and is valid, with the
\* score and the count of the record, and sets total_count to the number of
\* records and total_count - completed_count to the number of queued URLs;
\* this holds for the store as it is at any point of any run
StartupModes ==
    \A restart \in BOOLEAN, store \in {save, EmptyStore} :
       StartsAsSpecified(restart, store)

\* a process has just started without the flag on a store that holds a
\* completed short record, a record that is no longer valid and a record that
\* it put back into the queues
ReplayedMixedStore ==
    /\ run > 1
    /\ dispatched = {}
    /\ \E h \in DOMAIN save : Len(save[h]) = 2
    /\ \E h \in DOMAIN save : Len(save[h]) = 4 /\ ~is_valid(save[h][1])
    /\ Replayable(save) # {}
    /\ Entries(Frontier) = {QueueKey(save[h][3], save[h][4], save[h][1]) :
                               h \in Replayable(save)}

\* C26: the test and the record of detect_exact_similar, and those of
\* detect_near_similar, are one step with respect to the other workers: no
\* two workers are between the test and the record of the same set at the
\* same time, and no worker's reading of a set is broken by another worker's
\* record
FilterLocked ==
    \A w, v \in Workers :
       /\ pc[w] # "near_raise"
       /\ w # v => /\ ~(pc[w] = "exact_add" /\ pc[v] = "exact_add")
                   /\ ~(pc[w] = "near_add" /\ pc[v] = "near_add")

\* steps 2 to 4 of the pipeline turn the page down
TurnedDownEarly(url, r) ==
    \/ r.status # 200 \/ r.size = "none"
    \/ r.size = "huge"
    \/ detect_trap(Lower(url))

\* the page passes every check of extract_next_links
PassesAll(url, r) ==
    /\ Page(url) \notin seen_urls
    /\ ~TurnedDownEarly(url, r)
    /\ r.words # <<>> => /\ ContentHash(r.words) \notin seen_exact_content_hashes
                         /\ ~NearRecorded(Simhash(r.words))
    /\ ~detect_low_info(r, Len(r.words))

\* C27: a page turned down by the transport check, the size check or the
\* trap heuristic yields no links and changes nothing in the scraper but
\* seen_urls, which gains its page; word_freq, subdomain_freq and the
\* longest-page record change only for a page that passes every check
PipelineShortCircuit ==
    [][\A w \in Workers :
          (pc[w] = "fetch" /\ pc'[w] # "fetch")
          => /\ TurnedDownEarly(tbd_url[w], resp[w])
                => /\ pc'[w] = "mark"
                   /\ seen_urls' = seen_urls \cup {Page(tbd_url[w])}
                   /\ UNCHANGED <<seen_exact_content_hashes,
                                  seen_near_content_hashes, word_freq,
                                  subdomain_freq, longest_url, highest_word_count>>
             /\ PassesAll(tbd_url[w], resp[w])
                \/ UNCHANGED <<word_freq, subdomain_freq, longest_url,
                               highest_word_count>>]_vars

\* a new page with words and a body over 5 MiB was turned down and left no
\* hash, and the page of the other worker was accepted
TurnedDownLarge ==
    \E w, v \in Workers :
       /\ pc[w] = "mark" /\ resp[w].size = "huge" /\ resp[w].words # <<>>
       /\ passed_seen[Page(tbd_url[w])] = 1
       /\ Page(tbd_url[w]) \in seen_urls
       /\ pc[v] = "add" /\ resp[v].words = <<>>
       /\ seen_exact_content_hashes = {}
       /\ subdomain_freq[tbd_url[v].host] = 1

\* host h belongs to seed host s: it is s, a subdomain of s, or s without
\* its leading "www."
BelongsTo(h, s) ==
    \/ h = s
    \/ EndsWith(h, <<".">> \o s)
    \/ s # RemovePrefixWww(s) /\ h = RemovePrefixWww(s)

\* C28: _get_domain maps a host to a seed host only if the host equals it,
\* is a dot-separated subdomain of it or equals it without its leading
\* "www."; any other host is its own bucket; two different seed hosts are in
\* different buckets; and the bucket does not depend on the order of the seeds
DomainBucketRule ==
    \A valid_domains \in SeedLists, w \in Workers :
       LET h == tbd_url[w].host
           domain == MatchSeedIn(valid_domains, h, 1)
           reversed == <<valid_domains[2], valid_domains[1]>>
       IN  /\ domain # h => \E i \in 1..2 : domain = valid_domains[i] /\ BelongsTo(h, domain)
           /\ (\A i \in 1..2 : ~BelongsTo(h, valid_domains[i])) => domain = h
           /\ MatchSeedIn(valid_domains, valid_domains[1], 1)
                 # MatchSeedIn(valid_domains, valid_domains[2], 1)
           /\ domain = MatchSeedIn(reversed, h, 1)

\* the seeds as add_url records them
SeedUrls == {normalize(Seeds[i]) : i \in DOMAIN Seeds}

\* C29: every URL with a record, the seeds apart, passes is_valid, and so
\* does every URL a worker is handed: no link that is_valid turns down is
\* recorded or dispatched
OnlyValidLinks ==
    /\ \A h \in DOMAIN save : save[h][1] \in SeedUrls \/ is_valid(save[h][1])
    /\ \A url \in CheckedOut : url \in SeedUrls \/ is_valid(url)

\* C30: whenever the frontier lock is free, total_count - completed_count is
\* the number of entries in the domain queues plus active_workers, and
\* active_workers is the number of URLs that get_tbd_url returned and that
\* were not yet passed to mark_url_complete, hence not negative; after a start
\* from the seeds and after a replay
CounterConservation ==
    /\ total_count - completed_count
          = Cardinality(Entries(Frontier)) + active_workers
    /\ active_workers = Cardinality({w \in Workers : tbd_url[w] # NoUrl})
    /\ active_workers >= 0

\* in a process that replayed the store a worker holds a URL, a URL is
\* queued and one was completed
ReplayedAndCheckedOut ==
    /\ run > 1
    /\ active_workers > 0
    /\ Entries(Frontier) # {}
    /\ \E h \in DOMAIN save : Len(save[h]) = 2
    /\ completed_count > 0

\* C31: a process started with the restart flag begins with an empty
\* scraper, whatever raw_stats.pkl an earlier process left: seen_urls, both
\* hash sets and the statistics are empty, so that the page of no seed is
\* turned down as seen
CleanRestartResetsFilter ==
    LET st == scraper_factory(TRUE, raw_stats) IN
    /\ st = ScraperState(NoFile)
    /\ \A i \in DOMAIN Seeds : Page(Seeds[i]) \notin st.seen_urls

=============================================================================
